---- MODULE Spec2Model ----
(***************************************************************************)
(* A model of python-newick (src/src/newick.py): the Newick tokenizer and  *)
(* parser (NewickString), the serializer (Node.newick, dumps) and the tree *)
(* operations of Node (walk, prune, remove_redundant_nodes,                *)
(* resolve_polytomies).                                                    *)
(*                                                                         *)
(* A Python str is a sequence of one-character strings.  None and the      *)
(* empty str are both the empty sequence: the code only ever tests names   *)
(* and raw lengths for truthiness, and loads never stores an empty str.    *)
(* Node objects live in a heap, a sequence of records; a node's identity   *)
(* is its index, and index 0 stands for None.                              *)
(***************************************************************************)
EXTENDS Integers, Sequences, FiniteSets, TLC

\* ------------------------------------------------------------------ bounds

\* Longest raw input text of the text specification.
MaxLen == 5
\* Largest number of nodes of a generated input tree.
MaxNodes == 4
\* Largest number of nodes handed to prune in one call.
MaxPrune == 2
\* Largest number of mutating calls after loads.
MaxOps == 2
\* Largest number of iterations of one while loop of remove_redundant_nodes.
MaxWhile == 6
\* Largest number of children of the root of a generated polytomy.
MaxStar == 4
\* Longest text handed to Node() or assigned to a name or a length.
MaxName == 3
\* Largest number of assignments to the name or the length of one node.
MaxAssign == 1
\* Longest label text of the label specification.
MaxLabel == 6
\* The longest raw name handed to Node(..., auto_quote=True).
MaxRaw == 4

\* ------------------------------------------------------------ module data

QUOTE == "'"
ESCAPE == {"'", "\\"}
RESERVED_PUNCTUATION == {":", ";", ",", "(", ")"}
\* The characters matched by \s and removed by str.strip().
Whitespace == {" ", "\n"}

NoneStr == << >>

Range(f) == {f[i] : i \in DOMAIN f}

\* ------------------------------------------------------------ str helpers

RECURSIVE LStrip(_)
LStrip(s) ==
  IF s # << >> /\ s[1] \in Whitespace THEN LStrip(Tail(s)) ELSE s

RECURSIVE RStrip(_)
RStrip(s) ==
  IF s # << >> /\ s[Len(s)] \in Whitespace
    THEN RStrip(SubSeq(s, 1, Len(s) - 1))
    ELSE s

Strip(s) == RStrip(LStrip(s))

RECURSIVE Join(_, _)
Join(sep, parts) ==
  IF parts = << >> THEN << >>
  ELSE IF Len(parts) = 1 THEN parts[1]
  ELSE parts[1] \o sep \o Join(sep, Tail(parts))

RECURSIVE Concat(_)
Concat(parts) ==
  IF parts = << >> THEN << >> ELSE parts[1] \o Concat(Tail(parts))

\* check_string without its search for whitespace.
check_stringPunctuationOnly(n) ==
  \E i \in DOMAIN n : n[i] \in RESERVED_PUNCTUATION

\* check_string raises ValueError.
check_string(n) ==
  \E i \in DOMAIN n : n[i] \in RESERVED_PUNCTUATION \/ n[i] \in Whitespace

\* --------------------------------------------------------------- tokenizer

\* Token with the three flags set for the character alone.
TokenByCharacter(c, iq, cl, lv) ==
  LET reg == (~iq) /\ cl = 0
  IN [char |-> c, inquote |-> iq, commentlevel |-> cl, level |-> lv,
      regular |-> reg,
      is_comma |-> c = ",",
      is_colon |-> c = ":",
      is_semicolon |-> c = ";"]

Token(c, iq, cl, lv) ==
  LET reg == (~iq) /\ cl = 0
  IN [char |-> c, inquote |-> iq, commentlevel |-> cl, level |-> lv,
      regular |-> reg,
      is_comma |-> reg /\ c = ",",
      is_colon |-> reg /\ c = ":",
      is_semicolon |-> reg /\ c = ";"]

ScanInit ==
  [inquote |-> FALSE, commentlevel |-> 0, doublequote |-> FALSE,
   bracketlevel |-> 0, toks |-> << >>, err |-> FALSE]

\* One iteration of the loop over the characters of s.
ScanStep(s, i, st) ==
  LET c == s[i]
      opens == c = QUOTE /\ ~st.inquote
      closes == c = QUOTE /\ st.inquote /\ ~st.doublequote
      inq == IF opens THEN TRUE ELSE IF closes THEN FALSE ELSE st.inquote
      dq == IF opens \/ closes \/ c \notin ESCAPE THEN st.doublequote
            ELSE IF c = QUOTE /\ st.doublequote THEN FALSE
            ELSE IF i < Len(s) /\ s[i + 1] = QUOTE THEN TRUE
            ELSE st.doublequote
      cl1 == IF (~inq) /\ c = "[" THEN st.commentlevel + 1 ELSE st.commentlevel
      bl1 == IF (~inq) /\ cl1 = 0 /\ c = ")"
               THEN st.bracketlevel - 1 ELSE st.bracketlevel
      iq == IF c = QUOTE THEN TRUE ELSE inq
      cl2 == IF (~inq) /\ c = "]" THEN cl1 - 1 ELSE cl1
      bl2 == IF (~inq) /\ cl2 = 0 /\ c = "(" THEN bl1 + 1 ELSE bl1
  IN IF bl1 < 0 \/ cl2 < 0
       THEN [st EXCEPT !.err = TRUE]
       ELSE [inquote |-> inq, commentlevel |-> cl2, doublequote |-> dq,
             bracketlevel |-> bl2,
             toks |-> Append(st.toks, Token(c, iq, cl1, bl1)),
             err |-> FALSE]

RECURSIVE Scan(_, _, _)
Scan(s, i, st) ==
  IF i > Len(s) \/ st.err THEN st ELSE Scan(s, i + 1, ScanStep(s, i, st))

\* NewickString(s) for a str s: [err, toks].
Tokenize(s) == Scan(s, 1, ScanInit)

minlevel(toks) == IF toks = << >> THEN 0 ELSE toks[Len(toks)].level

\* ------------------------------------------------------- subtree splitter

\* checked(t) without its comparison of the first and the last token's level.
CheckedFailsNoLevel(t) ==
  /\ t # << >>
  /\ LET last == t[Len(t)]
     IN \/ last.commentlevel > 1
        \/ last.commentlevel = 1 /\ last.char # "]"
        \/ last.inquote /\ last.char # QUOTE

\* checked(t) raises ValueError.
CheckedFails(t) ==
  /\ t # << >>
  /\ LET last == t[Len(t)]
     IN \/ t[1].level # last.level
        \/ last.commentlevel > 1
        \/ last.commentlevel = 1 /\ last.char # "]"
        \/ last.inquote /\ last.char # QUOTE

RECURSIVE SubtreeLoop(_, _, _, _, _)
SubtreeLoop(toks, i, cur, groups, strip_comments) ==
  IF i > Len(toks)
    THEN IF cur # << >> THEN Append(groups, cur) ELSE groups
  ELSE IF toks[i].is_semicolon
    THEN SubtreeLoop(toks, i + 1, << >>, Append(groups, cur), strip_comments)
  ELSE IF ~(strip_comments /\ toks[i].commentlevel > 0)
    THEN SubtreeLoop(toks, i + 1, Append(cur, toks[i]), groups, strip_comments)
  ELSE SubtreeLoop(toks, i + 1, cur, groups, strip_comments)

\* The token groups iter_subtrees yields, each of them through checked().
Checked(groups) ==
  [err |-> \E k \in DOMAIN groups : CheckedFails(groups[k]),
   groups |-> groups]

iter_subtrees(toks, strip_comments) ==
  Checked(SubtreeLoop(toks, 1, << >>, << >>, strip_comments))

RECURSIVE DescLoop(_, _, _, _, _)
DescLoop(toks, i, cur, groups, comma) ==
  IF i > Len(toks)
    THEN IF comma \/ cur # << >> THEN Append(groups, cur) ELSE groups
  ELSE IF toks[i].is_comma /\ toks[i].level = minlevel(toks) + 1
    THEN DescLoop(toks, i + 1, << >>, Append(groups, cur), TRUE)
  ELSE IF toks[i].level > minlevel(toks)
    THEN DescLoop(toks, i + 1, Append(cur, toks[i]), groups, comma)
  ELSE DescLoop(toks, i + 1, cur, groups, comma)

iter_descendants(toks) == DescLoop(toks, 1, << >>, << >>, FALSE)

\* ------------------------------------------------------------ node builder

\* First index of the longest suffix of toks that lies at minlevel.
RECURSIVE TailStart(_, _)
TailStart(toks, k) ==
  IF k >= 1 /\ toks[k].level = minlevel(toks) THEN TailStart(toks, k - 1) ELSE k + 1

\* The tokens of the node's own label, in source order.
LabelFrom(toks, k) ==
  IF k <= Len(toks) /\ toks[k].char = ")"
    THEN SubSeq(toks, k + 1, Len(toks))
    ELSE SubSeq(toks, k, Len(toks))

LabelTokens(toks) == LabelFrom(toks, TailStart(toks, Len(toks)))

LabelInit ==
  [name |-> << >>, length |-> << >>, comment |-> << >>, comments |-> << >>,
   icolon |-> -1, icomment |-> -1]

\* One iteration of the loop over the label's tokens (i counts from 0).
LabelStep(t, i, st) ==
  IF t.is_colon THEN [st EXCEPT !.icolon = i]
  ELSE IF t.commentlevel > 0
    THEN [st EXCEPT !.icomment = IF st.icomment = -1 THEN i ELSE st.icomment,
                    !.comment = Append(st.comment, t.char)]
  ELSE LET flushed == IF st.comment # << >>
                        THEN [st EXCEPT !.comments = Append(st.comments, st.comment),
                                        !.comment = << >>]
                        ELSE st
       IN IF flushed.icolon = -1
            THEN [flushed EXCEPT !.name = Append(flushed.name, t.char)]
            ELSE [flushed EXCEPT !.length = Append(flushed.length, t.char)]

RECURSIVE LabelLoop(_, _, _)
LabelLoop(tokens, i, st) ==
  IF i > Len(tokens) THEN st
  ELSE LabelLoop(tokens, i + 1, LabelStep(tokens[i], i - 1, st))

\* name, length, comments and colon_before_comment as to_node hands them on.
LabelResult(st, comments) ==
  [name |-> Strip(st.name),
   length |-> st.length,
   comments |-> [k \in DOMAIN comments |->
                   SubSeq(comments[k], 2, Len(comments[k]) - 1)],
   colon_before_comment |-> st.icolon < st.icomment]

LabelFlush(st) ==
  LabelResult(st, IF st.comment # << >> THEN Append(st.comments, st.comment)
                  ELSE st.comments)

ParseLabel(tokens) == LabelFlush(LabelLoop(tokens, 1, LabelInit))

\* ----------------------------------------------------------------- Node

Quoted(n) == n # << >> /\ n[1] = QUOTE /\ n[Len(n)] = QUOTE

\* The name setter raises ValueError (auto_quote off).
NameFails(n) == n # << >> /\ ~Quoted(n) /\ check_string(n)

\* The length setter raises ValueError for a str.
LengthFails(l) == l # << >> /\ check_string(Strip(l))

\* The default length_formatter applied to a str.
FormatStr(l) == l

\* n.replace("'", "''")
DoubleQuotes(n) ==
  Concat([k \in DOMAIN n |-> IF n[k] = QUOTE THEN <<QUOTE, QUOTE>> ELSE <<n[k]>>])

\* The name setter wraps n in quotes: n is not quoted, auto_quote is set and n
\* holds a character of RESERVED_PUNCTUATION + QUOTE.
AutoQuotes(n, auto_quote) ==
  /\ ~Quoted(n)
  /\ auto_quote
  /\ \E k \in DOMAIN n : n[k] \in RESERVED_PUNCTUATION \cup {QUOTE}

\* The name setter for a str n: [err, name], name the value it stores.
name_setter(n, auto_quote) ==
  IF AutoQuotes(n, auto_quote)
    THEN [err |-> FALSE, name |-> <<QUOTE>> \o DoubleQuotes(n) \o <<QUOTE>>]
    ELSE [err |-> NameFails(n), name |-> n]

\* The length setter for a str l: [err, length], length the value it stores.
length_setter(l) ==
  [err |-> LengthFails(l), length |-> FormatStr(Strip(l))]

\* s.replace(a + b, b)
RECURSIVE ReplacePair(_, _, _)
ReplacePair(s, a, b) ==
  IF Len(s) < 2 THEN s
  ELSE IF s[1] = a /\ s[2] = b
    THEN <<b>> \o ReplacePair(SubSeq(s, 3, Len(s)), a, b)
  ELSE <<s[1]>> \o ReplacePair(Tail(s), a, b)

\* unquoted_name that only takes the outer quotes off.
unquoted_nameOuterOnly(n, first) ==
  IF Quoted(n) THEN SubSeq(n, 2, Len(n) - 1) ELSE n

\* unquoted_name for a str n; first is the element of the set ESCAPE that the
\* for loop meets first.
unquoted_name(n, first) ==
  IF Quoted(n)
    THEN LET inner == SubSeq(n, 2, Len(n) - 1)
             second == CHOOSE esc \in ESCAPE : esc # first
         IN ReplacePair(ReplacePair(inner, first, QUOTE), second, QUOTE)
    ELSE n

\* The functions a node can hold as _length_parser: the default length_parser
\* and lambda l: l + 'i'.
Parsers == {"length_parser", "append_i"}

\* The functions a node can hold as _length_formatter: the default
\* length_formatter and lambda l: 5.
Formatters == {"length_formatter", "always_5"}

\* kw.pop('length_parser', length_parser), kw.pop('length_formatter',
\* length_formatter) for a kw without these keys.
NoKw == [length_parser |-> "length_parser", length_formatter |-> "length_formatter"]

\* The keyword arguments a caller can give.
KwChoices == [length_parser : Parsers, length_formatter : Formatters]

\* Node.__init__: [err, node]. The name is set first and the length last.
NodeCreate(name, length, comments, cbc, auto_quote) ==
  [err |-> name_setter(name, auto_quote).err \/ length_setter(length).err,
   node |-> [name |-> name_setter(name, auto_quote).name,
             length |-> length_setter(length).length,
             comments |-> comments,
             descendants |-> << >>,
             ancestor |-> 0,
             colon_before_comment |-> cbc,
             auto_quote |-> auto_quote,
             length_parser |-> NoKw.length_parser,
             length_formatter |-> NoKw.length_formatter]]

\* Node(name, **kw): the node.
NodeWithKw(name, kw) ==
  [NodeCreate(name, NoneStr, << >>, FALSE, FALSE).node EXCEPT
     !.length_parser = kw.length_parser,
     !.length_formatter = kw.length_formatter]

\* Node.__init__ for the arguments to_node passes: [err, node].
NodeInit(name, length, comments, cbc) ==
  NodeCreate(name, length, comments, cbc, FALSE)

\* The descendants setter: every node of ids gets self as its ancestor.
SetDescendants(heap, self, ids) ==
  [i \in DOMAIN heap |->
     [heap[i] EXCEPT
        !.descendants = IF i = self THEN ids ELSE @,
        !.ancestor = IF i \in Range(ids) THEN self ELSE @]]

\* add_descendant: node gets self as its ancestor and goes to the end of the list.
add_descendant(heap, self, node) ==
  [i \in DOMAIN heap |->
     [heap[i] EXCEPT
        !.descendants = IF i = self THEN Append(@, node) ELSE @,
        !.ancestor = IF i = node THEN self ELSE @]]

\* Node.create(...) with the parsed label lab and the descendants kids, which
\* were built before it: [err, heap, id].
CreateNode(kids, lab) ==
  IF kids.err \/ NameFails(lab.name) \/ LengthFails(lab.length)
    THEN [err |-> TRUE, heap |-> kids.heap, id |-> 0]
    ELSE [err |-> FALSE,
          heap |-> SetDescendants(
                     Append(kids.heap,
                            NodeInit(lab.name, lab.length, lab.comments,
                                     lab.colon_before_comment).node),
                     Len(kids.heap) + 1, kids.ids),
          id |-> Len(kids.heap) + 1]

RECURSIVE to_node(_, _), BuildAll(_, _, _, _), BuildNext(_, _, _, _)

\* to_node of every token group, left to right: [err, heap, ids].
BuildAll(groups, k, heap, ids) ==
  IF k > Len(groups) THEN [err |-> FALSE, heap |-> heap, ids |-> ids]
  ELSE BuildNext(groups, k, ids, to_node(groups[k], heap))

\* The rest of the groups after the k-th was built as r.
BuildNext(groups, k, ids, r) ==
  IF r.err THEN [err |-> TRUE, heap |-> r.heap, ids |-> ids]
  ELSE BuildAll(groups, k + 1, r.heap, Append(ids, r.id))

\* NewickString.to_node: the node is allocated after its descendants.
to_node(toks, heap) ==
  CreateNode(BuildAll(iter_descendants(toks), 1, heap, << >>),
             ParseLabel(LabelTokens(toks)))

\* What loads returns for the checked token groups sub: [err, heap, trees].
LoadsGroups(sub) ==
  IF sub.err THEN [err |-> TRUE, heap |-> << >>, ids |-> << >>]
  ELSE BuildAll(sub.groups, 1, << >>, << >>)

LoadsTokens(ns, strip_comments) ==
  IF ns.err THEN [err |-> TRUE, heap |-> << >>, ids |-> << >>]
  ELSE LoadsGroups(iter_subtrees(ns.toks, strip_comments))

LoadsResult(built) ==
  IF built.err THEN [err |-> TRUE, heap |-> << >>, trees |-> << >>]
  ELSE [err |-> FALSE, heap |-> built.heap, trees |-> built.ids]

\* loads(s, strip_comments): [err, heap, trees].
loads(s, strip_comments) == LoadsResult(LoadsTokens(Tokenize(s), strip_comments))

\* -------------------------------------------------------------- serializer

RECURSIVE newick(_, _)
newick(heap, n) ==
  LET nd == heap[n]
      before == nd.comments # << >> /\ nd.length # << >> /\ nd.colon_before_comment
      commentpart == IF nd.comments # << >>
                       THEN (IF before THEN <<":">> ELSE << >>)
                            \o <<"[">> \o Join(<<"|">>, nd.comments) \o <<"]">>
                       ELSE << >>
      lengthpart == IF nd.length # << >>
                      THEN (IF before THEN << >> ELSE <<":">>) \o nd.length
                      ELSE << >>
      label == nd.name \o commentpart \o lengthpart
      inner == Join(<<",">>, [k \in DOMAIN nd.descendants |->
                                newick(heap, nd.descendants[k])])
  IN (IF inner # << >> THEN <<"(">> \o inner \o <<")">> ELSE << >>) \o label

dumps(heap, trees) ==
  Join(<<";", "\n">>, [k \in DOMAIN trees |-> newick(heap, trees[k])]) \o <<";">>

\* ------------------------------------------------------------- lengths

Digits == <<"0", "1", "2", "3", "4", "5", "6", "7", "8", "9">>

IsDigit(c) == c \in Range(Digits)

DigitValue(c) == (CHOOSE k \in DOMAIN Digits : Digits[k] = c) - 1

RECURSIVE DigitsValue(_)
DigitsValue(s) ==
  IF s = << >> THEN 0
  ELSE 10 * DigitsValue(SubSeq(s, 1, Len(s) - 1)) + DigitValue(s[Len(s)])

\* The float literals of the model: digits, then optionally a point and zeros.
\* Their values are the non-negative integral floats.
IntegerPart(s) ==
  IF \E k \in DOMAIN s : s[k] = "."
    THEN SubSeq(s, 1, (CHOOSE k \in DOMAIN s :
                         s[k] = "." /\ \A j \in 1..(k - 1) : s[j] # ".") - 1)
    ELSE s

FloatLiteral(s) ==
  LET ip == IntegerPart(s)
  IN /\ ip # << >>
     /\ \A k \in DOMAIN ip : IsDigit(ip[k])
     /\ \A k \in (Len(ip) + 2)..Len(s) : s[k] = "0"

\* float(x) raises ValueError; the model's value for that is -1.
ValueError == -1

\* The default length_parser: float(x or 0.0).
length_parser(x) ==
  IF x = << >> THEN 0
  ELSE IF FloatLiteral(x) THEN DigitsValue(IntegerPart(x))
  ELSE ValueError

RECURSIVE IntToStr(_)
IntToStr(v) ==
  IF v < 10 THEN <<Digits[v + 1]>>
  ELSE IntToStr(v \div 10) \o <<Digits[(v % 10) + 1]>>

\* The default length_formatter applied to a float: '%s' % x.
length_formatter(v) == IntToStr(v) \o <<".", "0">>

\* -------------------------------------------------------------- traversal

is_leaf(heap, n) == heap[n].descendants = << >>

\* walk() that takes the children of a node from right to left.
RECURSIVE walkRightToLeft(_, _)
walkRightToLeft(heap, n) ==
  <<n>> \o Concat([k \in DOMAIN heap[n].descendants |->
                     walkRightToLeft(heap, heap[n].descendants[
                       Len(heap[n].descendants) + 1 - k])])

\* walk() in its default mode.
RECURSIVE walk(_, _)
walk(heap, n) ==
  <<n>> \o Concat([k \in DOMAIN heap[n].descendants |->
                     walk(heap, heap[n].descendants[k])])

\* The while loop of _postorder.
RECURSIVE PostorderLoop(_, _, _)
PostorderLoop(stack, descendant_map, yielded) ==
  IF stack = << >> THEN yielded
  ELSE LET node == stack[Len(stack)]
           descendants == descendant_map[node]
       IN IF descendants = << >>
            THEN LET popped == SubSeq(stack, 1, Len(stack) - 1)
                 IN PostorderLoop(
                      popped,
                      IF popped # << >>
                        THEN [descendant_map EXCEPT ![popped[Len(popped)]] = Tail(@)]
                        ELSE descendant_map,
                      Append(yielded, node))
            ELSE PostorderLoop(Append(stack, descendants[1]), descendant_map, yielded)

\* walk(mode='postorder') that ignores its mode.
postorderModeIgnored(heap, n) == walk(heap, n)

\* walk(mode='postorder'): the nodes in the order _postorder yields them.
\* descendant_map holds copies, so the order is fixed by the heap at the start.
postorder(heap, n) ==
  PostorderLoop(<<n>>,
                [m \in Range(walk(heap, n)) |-> heap[m].descendants],
                << >>)

get_leaves(heap, n) == SelectSeq(walk(heap, n), LAMBDA m : is_leaf(heap, m))

\* ------------------------------------------------------------------ prune

\* list.remove(x): the list without its first x.
RECURSIVE ListRemove(_, _)
ListRemove(list, x) ==
  IF list = << >> THEN << >>
  ELSE IF list[1] = x THEN Tail(list)
  ELSE <<list[1]>> \o ListRemove(Tail(list), x)

\* The predicate of prune, were it to remove no node that has descendants.
PrunePredicateLeavesOnly(heap, n, nodes, inverse) ==
  /\ is_leaf(heap, n)
  /\ \/ (~inverse) /\ n \in nodes
     \/ inverse /\ n \notin nodes
  /\ heap[n].ancestor # 0

\* The predicate prune hands to visit.
PrunePredicate(heap, n, nodes, inverse) ==
  /\ \/ (~inverse) /\ n \in nodes
     \/ inverse /\ is_leaf(heap, n) /\ n \notin nodes
  /\ heap[n].ancestor # 0

\* visit() over a fixed order with prune's visitor; st is [err, diverged, heap].
\* list.remove raises ValueError when n is not in its ancestor's list.
RECURSIVE PruneVisit(_, _, _, _, _)
PruneVisit(order, k, st, nodes, inverse) ==
  IF k > Len(order) \/ st.err THEN st
  ELSE LET n == order[k]
           a == st.heap[n].ancestor
       IN IF ~PrunePredicate(st.heap, n, nodes, inverse)
            THEN PruneVisit(order, k + 1, st, nodes, inverse)
          ELSE IF n \notin Range(st.heap[a].descendants)
            THEN [st EXCEPT !.err = TRUE]
          ELSE PruneVisit(
                 order, k + 1,
                 [st EXCEPT !.heap[a].descendants = ListRemove(@, n)],
                 nodes, inverse)

\* prune that visits the nodes in the default order of walk.
prunePreorder(heap, self, nodes, inverse) ==
  PruneVisit(walk(heap, self), 1,
             [err |-> FALSE, diverged |-> FALSE, heap |-> heap], nodes, inverse)

\* prune: visit in postorder, on the heap as it is at each visit.
prune(heap, self, nodes, inverse) ==
  PruneVisit(postorder(heap, self), 1,
             [err |-> FALSE, diverged |-> FALSE, heap |-> heap], nodes, inverse)

\* The nodes prune_by_names hands to prune.
NamedNodes(heap, self, node_names) ==
  {n \in Range(walk(heap, self)) : heap[n].name \in node_names}

\* prune_by_names with only the first node of each name handed to prune.
prune_by_namesFirstMatch(heap, self, node_names, inverse) ==
  LET order == walk(heap, self)
      first == {order[i] : i \in {j \in DOMAIN order :
                  /\ heap[order[j]].name \in node_names
                  /\ \A k \in 1..(j - 1) :
                       heap[order[k]].name # heap[order[j]].name}}
  IN prune(heap, self, first, inverse)

prune_by_names(heap, self, node_names, inverse) ==
  prune(heap, self, NamedNodes(heap, self, node_names), inverse)

\* ------------------------------------------------- remove_redundant_nodes

\* for i, child in enumerate(list): if child is father: del list[i]
RECURSIVE DelLoop(_, _, _)
DelLoop(list, i, father) ==
  IF i > Len(list) THEN list
  ELSE IF list[i] = father
    THEN DelLoop(SubSeq(list, 1, i - 1) \o SubSeq(list, i + 1, Len(list)), i + 1, father)
  ELSE DelLoop(list, i + 1, father)

\* n.length += father.length that assigns the length of the father.
LengthReplaced(h, n, father) == length_parser(h[father].length)

\* n.length += father.length: the value of the sum.
LengthSum(h, n, father) ==
  length_parser(h[n].length) + length_parser(h[father].length)

\* One iteration of the body of the while loop; st is [err, diverged, heap].
CollapseStep(st, self, n, preserve_lengths, keep_leaf_name) ==
  LET h0 == st.heap
      father == h0[n].ancestor
      grandfather == h0[father].ancestor
      sum == LengthSum(h0, n, father)
      floatFails == preserve_lengths /\
                    (length_parser(h0[n].length) = ValueError \/
                     length_parser(h0[father].length) = ValueError)
      h1 == IF preserve_lengths
              THEN [h0 EXCEPT ![n].length = length_formatter(sum)]
              ELSE h0
      nameFails == keep_leaf_name /\ NameFails(h1[n].name)
      h2 == IF keep_leaf_name THEN [h1 EXCEPT ![father].name = h1[n].name] ELSE h1
      h3 == IF grandfather # 0
              THEN LET cut == [h2 EXCEPT ![grandfather].descendants =
                                           DelLoop(@, 1, father)]
                       added == add_descendant(cut, grandfather, n)
                   IN [added EXCEPT ![father].ancestor = 0]
              ELSE LET moved == SetDescendants(h2, self, h2[n].descendants)
                   IN IF preserve_lengths
                        THEN [moved EXCEPT ![self].length =
                                length_formatter(length_parser(h2[n].length))]
                        ELSE moved
  IN IF floatFails THEN [st EXCEPT !.err = TRUE]
     ELSE IF nameFails THEN [st EXCEPT !.err = TRUE, !.heap = h1]
     ELSE [st EXCEPT !.heap = h3]

\* while n.ancestor and len(n.ancestor.descendants) == 1
WhileCondition(heap, n) ==
  heap[n].ancestor # 0 /\ Len(heap[heap[n].ancestor].descendants) = 1

\* The while loop as an if: its body runs once at most.
CollapseIf(st, self, n, preserve_lengths, keep_leaf_name, fuel) ==
  IF st.err \/ ~WhileCondition(st.heap, n) THEN st
  ELSE CollapseStep(st, self, n, preserve_lengths, keep_leaf_name)

RECURSIVE CollapseWhile(_, _, _, _, _, _)
CollapseWhile(st, self, n, preserve_lengths, keep_leaf_name, fuel) ==
  IF st.err \/ ~WhileCondition(st.heap, n) THEN st
  ELSE IF fuel = 0 THEN [st EXCEPT !.diverged = TRUE]
  ELSE CollapseWhile(CollapseStep(st, self, n, preserve_lengths, keep_leaf_name),
                     self, n, preserve_lengths, keep_leaf_name, fuel - 1)

RECURSIVE CollapseVisit(_, _, _, _, _, _)
CollapseVisit(order, k, st, self, preserve_lengths, keep_leaf_name) ==
  IF k > Len(order) \/ st.err \/ st.diverged THEN st
  ELSE CollapseVisit(
         order, k + 1,
         CollapseWhile(st, self, order[k], preserve_lengths, keep_leaf_name, MaxWhile),
         self, preserve_lengths, keep_leaf_name)

\* remove_redundant_nodes: [err, diverged, heap]; diverged says that a while
\* loop was still running after MaxWhile iterations.
remove_redundant_nodes(heap, self, preserve_lengths, keep_leaf_name) ==
  CollapseVisit(postorder(heap, self), 1,
                [err |-> FALSE, diverged |-> FALSE, heap |-> heap],
                self, preserve_lengths, keep_leaf_name)

\* ------------------------------------------------------ resolve_polytomies

Reverse(list) == [k \in DOMAIN list |-> list[Len(list) + 1 - k]]

\* The new node: Node(length=self._length_formatter(self._length_parser('0'))).
\* self._length_formatter(self._length_parser('0')), as Node(length=...) with
\* the default formatter stores it.
ZeroLength(heap, self) ==
  IF heap[self].length_formatter = "always_5" THEN <<"5">>
  ELSE IF heap[self].length_parser = "append_i" THEN FormatStr(<<"0", "i">>)
  ELSE FormatStr(length_formatter(length_parser(<<"0">>)))

ZeroLengthNode(heap, self) ==
  [name |-> NoneStr,
   length |-> ZeroLength(heap, self),
   comments |-> << >>,
   descendants |-> << >>,
   ancestor |-> 0,
   colon_before_comment |-> FALSE,
   auto_quote |-> FALSE,
   length_parser |-> NoKw.length_parser,
   length_formatter |-> NoKw.length_formatter]

\* _resolve_polytomies(n) that moves the children in the order of the list.
ResolveNodeInOrder(heap, self, n) ==
  LET new == Len(heap) + 1
      old == heap[n].descendants
      moved == Tail(old)
      grown == Append(heap, ZeroLengthNode(heap, self))
  IN [i \in DOMAIN grown |->
        IF i = n THEN [grown[i] EXCEPT !.descendants = <<old[1], new>>]
        ELSE IF i = new THEN [grown[i] EXCEPT !.descendants = moved]
        ELSE IF i \in Range(moved) THEN [grown[i] EXCEPT !.ancestor = new]
        ELSE grown[i]]

\* _resolve_polytomies(n): all children but the first are popped from the end
\* of n's list onto a new node, which is then appended to n's list.
ResolveNode(heap, self, n) ==
  LET new == Len(heap) + 1
      old == heap[n].descendants
      moved == Reverse(Tail(old))
      grown == Append(heap, ZeroLengthNode(heap, self))
  IN [i \in DOMAIN grown |->
        IF i = n THEN [grown[i] EXCEPT !.descendants = <<old[1], new>>]
        ELSE IF i = new THEN [grown[i] EXCEPT !.descendants = moved]
        ELSE IF i \in Range(moved) THEN [grown[i] EXCEPT !.ancestor = new]
        ELSE grown[i]]

\* visit() in the default walk order: a node is handled when it is yielded, and
\* its list of descendants is read only after that.
RECURSIVE ResolveWalk(_, _, _), ResolveChildren(_, _, _, _)
ResolveWalk(heap, self, n) ==
  LET h == IF Len(heap[n].descendants) > 2 THEN ResolveNode(heap, self, n)
           ELSE heap
  IN ResolveChildren(h, self, h[n].descendants, 1)

ResolveChildren(heap, self, children, k) ==
  IF k > Len(children) THEN heap
  ELSE ResolveChildren(ResolveWalk(heap, self, children[k]), self, children, k + 1)

resolve_polytomies(heap, self) == ResolveWalk(heap, self, self)

is_binary(heap, n) ==
  \A m \in Range(walk(heap, n)) : Len(heap[m].descendants) \in {0, 2}

\* ------------------------------------------------------------------ inputs

\* The characters of the raw input texts.
TextAlphabet == {"(", ")", ",", ";", ":", "'", "[", "]", "\\", " ", "a"}

\* Every text over TextAlphabet of at most MaxLen characters.
TextInputs == UNION {[1..n -> TextAlphabet] : n \in 0..MaxLen}

\* The labels of the nodes of the generated input trees.
NodeLabels == {<<"a">>, <<"b", ":", "1">>}

\* The Newick texts of all trees (forests) of exactly n nodes.
RECURSIVE TreeTexts(_), ForestTexts(_)
TreeTexts(n) ==
  IF n = 1 THEN NodeLabels
  ELSE {<<"(">> \o f \o <<")">> \o l : f \in ForestTexts(n - 1), l \in NodeLabels}

ForestTexts(n) ==
  TreeTexts(n) \cup
  UNION {{t \o <<",">> \o f : t \in TreeTexts(j), f \in ForestTexts(n - j)} :
           j \in 1..(n - 1)}

\* The Newick text of k sibling leaves with the label l.
RECURSIVE LeafTexts(_, _)
LeafTexts(k, l) == IF k = 1 THEN l ELSE l \o <<",">> \o LeafTexts(k - 1, l)

\* The Newick texts of the polytomies of MaxStar leaves below one root.
StarTexts ==
  {<<"(">> \o LeafTexts(MaxStar, l) \o <<")">> \o r : l \in NodeLabels, r \in NodeLabels}

\* One statement per input: a tree of at most MaxNodes nodes, or a polytomy.
TreeInputs ==
  UNION {{t \o <<";">> : t \in TreeTexts(n)} : n \in 1..MaxNodes}
    \cup {t \o <<";">> : t \in StarTexts}

\* The names prune_by_names is called with.
NameChoices == {<<"a">>, <<"b">>}

\* The characters of the label texts: a comment, the colon, a name or length.
LabelAlphabet == {"[", "]", ":", "a"}

\* Every text over LabelAlphabet of at most MaxLabel characters.
LabelInputs == UNION {[1..n -> LabelAlphabet] : n \in 0..MaxLabel}

\* The characters of the texts handed to Node() and to its setters.
NodeAlphabet == {"a", ":", ";", ",", "(", ")", " ", "'"}

\* Every text over NodeAlphabet of at most MaxName characters.
NodeTexts == UNION {[1..n -> NodeAlphabet] : n \in 0..MaxName}

\* ------------------------------------------------------------------- state

VARIABLES
  input,     \* the text handed to loads
  heap,      \* the Node objects
  trees,     \* the list loads returned
  result,    \* how the last call ended: "ok", "ValueError" or "diverges"
  last,      \* the last call and its arguments
  pre,       \* the heap before the last call
  out,       \* the text the last dumps returned
  walked,    \* the nodes the last walk yielded
  nops,      \* the number of mutating calls so far
  history,   \* the names of the mutating calls since loads, oldest first
  reparsed,  \* input is a text that dumps returned
  kw         \* the keyword arguments the trees were made with

vars ==
  <<input, heap, trees, result, last, pre, out, walked, nops, history, reparsed,
    kw>>

Call(op) ==
  [op |-> op, self |-> 0, nodes |-> {}, names |-> {}, inverse |-> FALSE,
   preserve_lengths |-> FALSE, keep_leaf_name |-> FALSE, mode |-> "None",
   attr |-> "None", text |-> << >>, auto_quote |-> FALSE]

InitWith(inputs) ==
  /\ input \in inputs
  /\ heap = << >>
  /\ trees = << >>
  /\ result = "ok"
  /\ last = Call("init")
  /\ pre = << >>
  /\ out = << >>
  /\ walked = << >>
  /\ nops = 0
  /\ history = << >>
  /\ reparsed = FALSE
  /\ kw = NoKw

Init == InitWith(TreeInputs)

InitText == InitWith(TextInputs)

\* loads has returned a list of trees, and no call is still running.
Loaded ==
  /\ last.op # "init"
  /\ ~(last.op = "loads" /\ result = "ValueError")
  /\ result # "diverges"

Reachable(h, ts) == UNION {Range(walk(h, ts[k])) : k \in DOMAIN ts}

Parsed(text, r) ==
  /\ input' = text
  /\ heap' = r.heap
  /\ trees' = r.trees
  /\ result' = IF r.err THEN "ValueError" ELSE "ok"
  /\ last' = Call("loads")
  /\ pre' = << >>
  /\ out' = << >>
  /\ walked' = << >>
  /\ nops' = 0
  /\ history' = << >>

Parse(text) == Parsed(text, loads(text, FALSE))

\* trees = loads(input)
Loads ==
  /\ last.op = "init"
  /\ Parse(input)
  /\ UNCHANGED <<reparsed, kw>>

\* out = dumps(trees)
Dumps ==
  /\ Loaded
  /\ out' = dumps(heap, trees)
  /\ last' = Call("dumps")
  /\ result' = "ok"
  /\ walked' = << >>
  /\ UNCHANGED <<input, heap, trees, pre, nops, history, reparsed, kw>>

\* trees = loads(out), for the text out that dumps has just returned
Reload ==
  /\ last.op = "dumps"
  /\ Parse(out)
  /\ reparsed' = TRUE
  /\ UNCHANGED kw

\* list(self.walk(mode)) for a root self
Walk ==
  /\ Loaded
  /\ \E self \in Range(trees), mode \in {"None", "postorder"} :
       /\ walked' = IF mode = "postorder" THEN postorder(heap, self)
                    ELSE walk(heap, self)
       /\ last' = [Call("walk") EXCEPT !.self = self, !.mode = mode]
  /\ result' = "ok"
  /\ out' = << >>
  /\ UNCHANGED <<input, heap, trees, pre, nops, history, reparsed, kw>>

Mutates(op) ==
  /\ Loaded
  /\ nops < MaxOps
  /\ nops' = nops + 1
  /\ history' = Append(history, op)
  /\ pre' = heap
  /\ out' = << >>
  /\ walked' = << >>
  /\ UNCHANGED <<input, trees, reparsed, kw>>

\* The call ended as r says: [err, diverged, heap].
Returned(r) ==
  /\ heap' = r.heap
  /\ result' = IF r.diverged THEN "diverges"
               ELSE IF r.err THEN "ValueError" ELSE "ok"

\* self.prune(nodes, inverse) for a root self
Prune ==
  /\ Mutates("prune")
  /\ \E self \in Range(trees), inverse \in BOOLEAN,
        nodes \in {ns \in SUBSET DOMAIN heap : Cardinality(ns) <= MaxPrune} :
       /\ Returned(prune(heap, self, nodes, inverse))
       /\ last' = [Call("prune") EXCEPT
                     !.self = self, !.nodes = nodes, !.inverse = inverse]

\* self.prune_by_names(node_names, inverse) for a root self
PruneByNames ==
  /\ Mutates("prune_by_names")
  /\ \E self \in Range(trees), inverse \in BOOLEAN,
        names \in (SUBSET NameChoices) \ {{}} :
       /\ Returned(prune_by_names(heap, self, names, inverse))
       /\ last' = [Call("prune_by_names") EXCEPT
                     !.self = self, !.names = names, !.inverse = inverse,
                     !.nodes = NamedNodes(heap, self, names)]

\* self.remove_redundant_nodes(preserve_lengths, keep_leaf_name) for a root self
RemoveRedundantNodes ==
  /\ Mutates("remove_redundant_nodes")
  /\ \E self \in Range(trees), pl \in BOOLEAN, kln \in BOOLEAN :
       /\ Returned(remove_redundant_nodes(heap, self, pl, kln))
       /\ last' = [Call("remove_redundant_nodes") EXCEPT
                     !.self = self, !.preserve_lengths = pl,
                     !.keep_leaf_name = kln]

\* self.resolve_polytomies() for a root self
ResolvePolytomies ==
  /\ Mutates("resolve_polytomies")
  /\ \E self \in Range(trees) :
       /\ heap' = resolve_polytomies(heap, self)
       /\ last' = [Call("resolve_polytomies") EXCEPT !.self = self]
  /\ result' = "ok"

\* self.add_descendant(Node('a')) for a node self of a tree
AddDescendant ==
  /\ Mutates("add_descendant")
  /\ \E self \in Reachable(heap, trees) :
       LET made == NodeInit(<<"a">>, NoneStr, << >>, FALSE)
       IN /\ heap' = add_descendant(Append(heap, made.node), self, Len(heap) + 1)
          /\ last' = [Call("add_descendant") EXCEPT
                        !.self = self, !.nodes = {Len(heap) + 1}]
  /\ result' = "ok"

Next ==
  \/ Loads
  \/ Walk
  \/ Dumps
  \/ Prune
  \/ PruneByNames
  \/ RemoveRedundantNodes
  \/ ResolvePolytomies
  \/ AddDescendant

\* Trees are loaded and then walked, changed and written.
Spec == Init /\ [][Next]_vars

NextText ==
  \/ Loads
  \/ Dumps
  \/ Reload

\* Texts are parsed, written and parsed again.
SpecText == InitText /\ [][NextText]_vars

InitLabel == InitWith(LabelInputs)

\* Labels with comments are parsed, written and parsed again.
SpecLabel == InitLabel /\ [][NextText]_vars

\* No node has been made yet.
InitNode == InitWith({<< >>})

\* The call on a single node ended as r says: [err, node].
Assigned(r) ==
  /\ heap' = IF r.err THEN heap ELSE <<r.node>>
  /\ trees' = IF r.err THEN trees ELSE <<1>>
  /\ result' = IF r.err THEN "ValueError" ELSE "ok"
  /\ pre' = heap
  /\ UNCHANGED <<walked, history, reparsed, kw>>

\* Node(text, auto_quote=...) or Node('a', length=text, auto_quote=...)
NewNode ==
  /\ last.op = "init"
  /\ \E text \in NodeTexts, attr \in {"name", "length"}, auto_quote \in BOOLEAN :
       /\ Assigned(IF attr = "name"
                     THEN NodeCreate(text, NoneStr, << >>, FALSE, auto_quote)
                     ELSE NodeCreate(<<"a">>, text, << >>, FALSE, auto_quote))
       /\ input' = text
       /\ last' = [Call("Node") EXCEPT
                     !.attr = attr, !.text = text, !.auto_quote = auto_quote]
  /\ UNCHANGED <<nops, out>>

\* node.name = text
SetName ==
  /\ heap # << >>
  /\ nops < MaxAssign
  /\ nops' = nops + 1
  /\ \E text \in NodeTexts :
       /\ Assigned([err |-> name_setter(text, heap[1].auto_quote).err,
                    node |-> [heap[1] EXCEPT
                                !.name = name_setter(text, heap[1].auto_quote).name]])
       /\ input' = text
       /\ last' = [Call("name") EXCEPT
                     !.self = 1, !.attr = "name", !.text = text,
                     !.auto_quote = heap[1].auto_quote]
  /\ UNCHANGED out

\* node.length = text
SetLength ==
  /\ heap # << >>
  /\ nops < MaxAssign
  /\ nops' = nops + 1
  /\ \E text \in NodeTexts :
       /\ Assigned([err |-> length_setter(text).err,
                    node |-> [heap[1] EXCEPT !.length = length_setter(text).length]])
       /\ input' = text
       /\ last' = [Call("length") EXCEPT
                     !.self = 1, !.attr = "length", !.text = text,
                     !.auto_quote = heap[1].auto_quote]
  /\ UNCHANGED out

NextNode ==
  \/ NewNode
  \/ SetName
  \/ SetLength

\* One node is made, and then its name and its length are assigned.
SpecNode == InitNode /\ [][NextNode]_vars

\* The characters of the raw names: a letter, the quote, the backslash, a
\* reserved character and a blank.
RawAlphabet == {"a", "'", "\\", ":", " "}

\* Every raw name over RawAlphabet of at most MaxRaw characters.
RawTexts == UNION {[1..n -> RawAlphabet] : n \in 0..MaxRaw}

\* out = Node(text, auto_quote=True).unquoted_name
UnquotedName ==
  /\ last.op = "init"
  /\ \E text \in RawTexts, first \in ESCAPE :
       LET made == NodeCreate(text, NoneStr, << >>, FALSE, TRUE)
       IN /\ Assigned(made)
          /\ out' = IF made.err THEN << >>
                    ELSE unquoted_name(made.node.name, first)
          /\ input' = text
          /\ last' = [Call("unquoted_name") EXCEPT
                        !.attr = "name", !.text = text, !.auto_quote = TRUE]
  /\ UNCHANGED nops

NextQuote == UnquotedName

\* A node is made with auto_quote and its unquoted name is read.
SpecQuote == InitNode /\ [][NextQuote]_vars

\* trees = loads(input, **k): loads does not read its keyword arguments.
LoadsKw ==
  /\ last.op = "init"
  /\ Parse(input)
  /\ \E k \in KwChoices : kw' = k
  /\ UNCHANGED reparsed

\* trees = [Node('a', **k)]
NewRoot ==
  /\ last.op = "init"
  /\ \E k \in KwChoices :
       /\ heap' = <<NodeWithKw(<<"a">>, k)>>
       /\ kw' = k
  /\ trees' = <<1>>
  /\ result' = "ok"
  /\ last' = Call("Node")
  /\ input' = << >>
  /\ UNCHANGED <<pre, out, walked, nops, history, reparsed>>

\* self.add_descendant(Node('a', **kw)) for a node self of a tree made by hand
AddDescendantKw ==
  /\ input = << >>
  /\ Loaded
  /\ Len(heap) < MaxNodes
  /\ history' = Append(history, "add_descendant")
  /\ pre' = heap
  /\ UNCHANGED <<input, trees, out, walked, nops, reparsed, kw>>
  /\ \E self \in Reachable(heap, trees) :
       /\ heap' = add_descendant(Append(heap, NodeWithKw(<<"a">>, kw)),
                                 self, Len(heap) + 1)
       /\ last' = [Call("add_descendant") EXCEPT
                     !.self = self, !.nodes = {Len(heap) + 1}]
  /\ result' = "ok"

NextPolicy ==
  \/ LoadsKw
  \/ NewRoot
  \/ AddDescendantKw
  \/ ResolvePolytomies

\* Trees are made with keyword arguments, by loads or by hand, and resolved.
SpecPolicy == Init /\ [][NextPolicy]_vars

\* self.prune(nodes, inverse) for any node self of a tree
PruneAt ==
  /\ Mutates("prune")
  /\ \E self \in Reachable(heap, trees), inverse \in BOOLEAN,
        nodes \in {ns \in SUBSET DOMAIN heap : Cardinality(ns) <= MaxPrune} :
       /\ Returned(prune(heap, self, nodes, inverse))
       /\ last' = [Call("prune") EXCEPT
                     !.self = self, !.nodes = nodes, !.inverse = inverse]

\* self.remove_redundant_nodes(preserve_lengths, keep_leaf_name) for any node
\* self of a tree
RemoveRedundantNodesAt ==
  /\ Mutates("remove_redundant_nodes")
  /\ \E self \in Reachable(heap, trees), pl \in BOOLEAN, kln \in BOOLEAN :
       /\ Returned(remove_redundant_nodes(heap, self, pl, kln))
       /\ last' = [Call("remove_redundant_nodes") EXCEPT
                     !.self = self, !.preserve_lengths = pl,
                     !.keep_leaf_name = kln]

\* self.resolve_polytomies() for any node self of a tree
ResolvePolytomiesAt ==
  /\ Mutates("resolve_polytomies")
  /\ \E self \in Reachable(heap, trees) :
       /\ heap' = resolve_polytomies(heap, self)
       /\ last' = [Call("resolve_polytomies") EXCEPT !.self = self]
  /\ result' = "ok"

NextAt ==
  \/ Loads
  \/ PruneAt
  \/ RemoveRedundantNodesAt
  \/ ResolvePolytomiesAt

\* Trees are loaded and then changed by calls on their roots and inner nodes.
SpecAt == Init /\ [][NextAt]_vars

\* ------------------------------------------------------ claims: the parser

\* C1: a text that dumps returned for trees that loads returned parses again,
\* and serializing the trees parsed from it gives back exactly that text.
C1_TextRoundTrip ==
  reparsed =>
    /\ last.op = "loads" => result = "ok"
    /\ last.op = "dumps" => out = input

\* The number of tokens of toks that are the regular character c.
RegularCount(toks, c) ==
  Cardinality({k \in DOMAIN toks : toks[k].regular /\ toks[k].char = c})

\* The parentheses of s outside quotes and comments are unmatched: the scan
\* meets a ")" that closes nothing, or it ends with more "(" than ")".
ParensUnmatched(s) ==
  LET ns == Tokenize(s)
  IN IF ns.err
       THEN s[Len(ns.toks) + 1] = ")"
       ELSE RegularCount(ns.toks, "(") # RegularCount(ns.toks, ")")

\* C2: loads raises ValueError, and returns no tree, for every input whose
\* parentheses outside quotes and comments are unmatched.
C2_UnmatchedParensRaise ==
  (last.op = "loads" /\ ParensUnmatched(input)) =>
    (result = "ValueError" /\ trees = << >>)

\* loads has rejected a text that scans without error and in which every ")"
\* closes a "(", but which is left with an open "(" before a label.
C2_Witness ==
  /\ last.op = "loads"
  /\ ParensUnmatched(input)
  /\ ~Tokenize(input).err
  /\ \E k \in DOMAIN input : input[k] = "a"
  /\ result = "ValueError"

\* C3: loads returns the empty list, and raises nothing, for the empty text and
\* for every text of whitespace characters only.
C3_WhitespaceYieldsNoTree ==
  (last.op = "loads" /\ \A k \in DOMAIN input : input[k] \in Whitespace) =>
    (result = "ok" /\ trees = << >>)

\* ------------------------------------------------------- claims: the trees

\* The nodes at and below n: the least set that holds n and the descendants
\* of each of its members.
RECURSIVE Closure(_, _)
Closure(h, S) ==
  LET T == S \cup UNION {Range(h[m].descendants) : m \in S}
  IN IF T = S THEN S ELSE Closure(h, T)

Subtree(h, n) == Closure(h, {n})

Position(list, x) == CHOOSE i \in DOMAIN list : list[i] = x

Occurrences(list, x) == Cardinality({i \in DOMAIN list : list[i] = x})

\* Every two neighbours of each list of descendants come in list order in seq.
SiblingsLeftToRight(h, seq) ==
  \A p \in Range(seq) :
    \A j \in 1..(Len(h[p].descendants) - 1) :
      /\ h[p].descendants[j] \in Range(seq)
      /\ h[p].descendants[j + 1] \in Range(seq)
      /\ Position(seq, h[p].descendants[j]) < Position(seq, h[p].descendants[j + 1])

\* seq holds every node at and below n exactly once.
EachOnce(h, n, seq) ==
  /\ Range(seq) = Subtree(h, n)
  /\ Len(seq) = Cardinality(Subtree(h, n))

\* C4: every node whose ancestor is set, reachable or removed, occurs exactly
\* once in the descendants of that ancestor.
C4_AncestorInvariant ==
  \A n \in DOMAIN heap :
    heap[n].ancestor # 0 =>
      Occurrences(heap[heap[n].ancestor].descendants, n) = 1

C6_PostOrder ==
  (last.op = "walk" /\ last.mode = "postorder") =>
    /\ EachOnce(heap, last.self, walked)
    /\ \A p \in Range(walked) :
         \A d \in Subtree(heap, p) \ {p} :
           d \in Range(walked) /\ Position(walked, d) < Position(walked, p)
    /\ SiblingsLeftToRight(heap, walked)
    /\ Range(walked) = Range(walk(heap, last.self))

\* The postorder walk has run over a tree with an inner node below the root and
\* a node with several children.
C6_Witness ==
  /\ last.op = "walk" /\ last.mode = "postorder"
  /\ Len(walked) >= 4
  /\ \E i \in DOMAIN walked : i < Len(walked) /\ heap[walked[i]].descendants # << >>
  /\ \E i \in DOMAIN walked : Len(heap[walked[i]].descendants) >= 2

\* The last call was made on the root of a tree as loads returned it.
OnLoadedTree == Len(history) = 1

\* C7: prune(nodes) on the root of a loaded tree leaves exactly the nodes that
\* were there before, less every given node other than the root and all that
\* was below it; the root stays.
C7_PruneRemovesSubtrees ==
  (last.op = "prune" /\ ~last.inverse /\ OnLoadedTree) =>
    /\ result = "ok"
    /\ last.self \in Subtree(heap, last.self)
    /\ Subtree(heap, last.self) =
         Subtree(pre, last.self) \
           UNION {Subtree(pre, n) : n \in (last.nodes \ {last.self})
                                          \cap Subtree(pre, last.self)}

\* prune was given the root and an inner node below it, and has removed the
\* inner node with all that was below it.
C7_Witness ==
  /\ last.op = "prune" /\ ~last.inverse /\ OnLoadedTree
  /\ last.self \in last.nodes
  /\ \E n \in last.nodes :
       /\ n # last.self
       /\ pre[n].descendants # << >>
       /\ pre[n].ancestor # 0
  /\ Subtree(heap, last.self) # Subtree(pre, last.self)

\* C8: prune(nodes, inverse=True) on the root of a loaded tree leaves no leaf
\* but the root outside the given nodes, and every given node that was in the
\* tree is still in it.
C8_InversePruneKeepsGiven ==
  (last.op = "prune" /\ last.inverse /\ OnLoadedTree) =>
    /\ result = "ok"
    /\ \A n \in Subtree(heap, last.self) \ {last.self} :
         heap[n].descendants = << >> => n \in last.nodes
    /\ \A n \in last.nodes \cap Subtree(pre, last.self) :
         n \in Subtree(heap, last.self)

\* An inverse prune has removed an inner node that lost all its children.
C8_Witness ==
  /\ last.op = "prune" /\ last.inverse /\ OnLoadedTree
  /\ last.nodes # {}
  /\ \E n \in Subtree(pre, last.self) \ Subtree(heap, last.self) :
       pre[n].descendants # << >>

\* Every mutating call before the last one was a prune.
AfterPrunesOnly ==
  \A k \in 1..(Len(history) - 1) : history[k] \in {"prune", "prune_by_names"}

\* C9: after remove_redundant_nodes on the root of a loaded, possibly pruned
\* tree no node of the tree has exactly one child.
C9_NoSingleChild ==
  (last.op = "remove_redundant_nodes" /\ AfterPrunesOnly) =>
    /\ result = "ok"
    /\ \A n \in Subtree(heap, last.self) : Len(heap[n].descendants) # 1

\* A chain of two single-child nodes that starts at the root was collapsed.
C9_Witness ==
  /\ last.op = "remove_redundant_nodes" /\ AfterPrunesOnly
  /\ Len(pre[last.self].descendants) = 1
  /\ Len(pre[pre[last.self].descendants[1]].descendants) = 1
  /\ result = "ok"

\* The total lengths from n, with the sum acc of the lengths above it, down to
\* each leaf below n: a set of pairs of a leaf and its total.
RECURSIVE LeafTotals(_, _, _)
LeafTotals(h, n, acc) ==
  IF h[n].descendants = << >>
    THEN {<<n, acc + length_parser(h[n].length)>>}
    ELSE UNION {LeafTotals(h, h[n].descendants[k], acc + length_parser(h[n].length)) :
                  k \in DOMAIN h[n].descendants}

\* How many leaves below n have each total.
TotalsBag(h, n) ==
  LET pairs == LeafTotals(h, n, 0)
  IN [v \in {pr[2] : pr \in pairs} |-> Cardinality({pr \in pairs : pr[2] = v})]

\* C10: with preserve_lengths the lengths of the removed nodes are added to
\* the surviving ones, so that the totals from the root down to the leaves are
\* the same after the call as before, and a leaf below the root that stays has
\* its total; without preserve_lengths no length changes.
C10_LengthsPreserved ==
  (last.op = "remove_redundant_nodes" /\ AfterPrunesOnly) =>
    /\ result = "ok"
    /\ last.preserve_lengths =>
         /\ TotalsBag(heap, last.self) = TotalsBag(pre, last.self)
         /\ \A pr \in LeafTotals(heap, last.self, 0) :
              pr[1] # last.self => pr \in LeafTotals(pre, last.self, 0)
    /\ ~last.preserve_lengths =>
         \A n \in DOMAIN pre : heap[n].length = pre[n].length

\* Lengths were added along a collapsed chain in which one node has a length
\* and another has none.
C10_Witness ==
  /\ last.op = "remove_redundant_nodes" /\ AfterPrunesOnly
  /\ last.preserve_lengths
  /\ result = "ok"
  /\ \E n \in Subtree(heap, last.self) : length_parser(heap[n].length) >= 2
  /\ \E n \in DOMAIN pre :
       /\ n \notin Subtree(heap, last.self)
       /\ n \in Subtree(pre, last.self)
       /\ pre[n].length = << >>

\* The node at the lower end of the chain of single-child nodes that starts at n.
RECURSIVE ChainBottom(_, _)
ChainBottom(h, n) ==
  IF Len(h[n].descendants) = 1 THEN ChainBottom(h, h[n].descendants[1]) ELSE n

\* The nodes of the chain of single-child nodes that starts at n, its lower end
\* included.
RECURSIVE ChainNodes(_, _)
ChainNodes(h, n) ==
  IF Len(h[n].descendants) = 1
    THEN {n} \cup ChainNodes(h, h[n].descendants[1])
    ELSE {n}

\* The upper ends of the chains of single-child nodes at and below root.
ChainTops(h, root) ==
  {n \in Subtree(h, root) :
     /\ Len(h[n].descendants) = 1
     /\ n = root \/ Len(h[h[n].ancestor].descendants) # 1}

\* C11: after remove_redundant_nodes on the root of a loaded tree, the node that
\* is left of each chain of single-child nodes, at the root or below it, has the
\* name of the chain's node farthest from the root with keep_leaf_name, and the
\* name of the chain's node closest to the root without it.
C11_ChainName ==
  (last.op = "remove_redundant_nodes" /\ OnLoadedTree /\ result = "ok") =>
    \A top \in ChainTops(pre, last.self) :
      \A left \in ChainNodes(pre, top) \cap Subtree(heap, last.self) :
        heap[left].name =
          IF last.keep_leaf_name THEN pre[ChainBottom(pre, top)].name
          ELSE pre[top].name

\* C12: after resolve_polytomies on the root of a loaded tree every node of the
\* tree has no child or exactly two children, and is_binary is true.
C12_ResolvedIsBinary ==
  (last.op = "resolve_polytomies" /\ OnLoadedTree) =>
    /\ \A n \in Subtree(heap, last.self) : Len(heap[n].descendants) \in {0, 2}
    /\ is_binary(heap, last.self)

\* The node has the children that resolve_polytomies is to make of the list
\* kids in the heap h: kids itself if they are at most two, and else the first
\* of them and then one new, unnamed node of length zero that has in the same
\* way the rest of them, taken from the end of the list.
RECURSIVE Resolved(_, _, _)
Resolved(h, node, kids) ==
  IF Len(kids) <= 2 THEN h[node].descendants = kids
  ELSE /\ Len(h[node].descendants) = 2
       /\ h[node].descendants[1] = kids[1]
       /\ LET new == h[node].descendants[2]
          IN /\ new \notin DOMAIN pre
             /\ h[new].name = NoneStr
             /\ length_parser(h[new].length) = 0
             /\ h[new].length # NoneStr
             /\ Resolved(h, new, [k \in 1..(Len(kids) - 1) |-> kids[Len(kids) + 1 - k]])

Leaves(h, root) == {n \in Subtree(h, root) : h[n].descendants = << >>}

\* C13: resolve_polytomies on the root of a loaded tree leaves every node of at
\* most two children as it was and gives every other node its first child and
\* one new unnamed zero-length node that holds the rest from the end of the
\* list, resolved in the same way; the leaves and the names and lengths of the
\* nodes that were there are unchanged.
C13_ResolvedShape ==
  (last.op = "resolve_polytomies" /\ OnLoadedTree) =>
    /\ result = "ok"
    /\ \A n \in Subtree(pre, last.self) : Resolved(heap, n, pre[n].descendants)
    /\ Leaves(heap, last.self) = Leaves(pre, last.self)
    /\ \A n \in DOMAIN pre :
         heap[n].name = pre[n].name /\ heap[n].length = pre[n].length

\* A node of four children was resolved: the new node was resolved in turn.
C13_Witness ==
  /\ last.op = "resolve_polytomies" /\ OnLoadedTree
  /\ Len(pre[last.self].descendants) = 4
  /\ Len(heap) = Len(pre) + 2
  /\ pre[pre[last.self].descendants[1]].length # NoneStr

\* ------------------------------------------------------- claims: one node

\* The text holds reserved punctuation or whitespace.
Forbidden(text) ==
  \E k \in DOMAIN text : text[k] \in RESERVED_PUNCTUATION \cup Whitespace

\* The last call made a node, or assigned a name or a length, without auto_quote.
PlainAssignment ==
  /\ last.op \in {"Node", "name", "length"}
  /\ ~last.auto_quote

\* C14 as stated: without auto_quote an unquoted name, or a raw length string,
\* that holds reserved punctuation or whitespace raises ValueError, at
\* construction and at assignment, and the node is left as it was.
C14_ForbiddenRaises ==
  (/\ PlainAssignment
   /\ Forbidden(last.text)
   /\ last.attr = "name" => ~Quoted(last.text)) =>
    (result = "ValueError" /\ heap = pre)

\* C14 as amended: the same for a name that does not both begin and end with a
\* quote, and for a raw length string once the whitespace at its two ends is
\* stripped.
C14_ForbiddenRaisesStripped ==
  (/\ PlainAssignment
   /\ IF last.attr = "name"
        THEN ~Quoted(last.text) /\ Forbidden(last.text)
        ELSE Forbidden(Strip(last.text))) =>
    (result = "ValueError" /\ heap = pre)

\* An assignment of a length with whitespace inside it has failed on a node
\* that has a length.
C14_Witness ==
  /\ last.op = "length" /\ ~last.auto_quote
  /\ Forbidden(Strip(last.text))
  /\ \A k \in DOMAIN last.text : last.text[k] \notin RESERVED_PUNCTUATION
  /\ result = "ValueError"
  /\ heap # << >> /\ heap[1].length # NoneStr

\* The text with every single quote in it written twice.
RECURSIVE QuotesDoubled(_)
QuotesDoubled(text) ==
  IF text = << >> THEN << >>
  ELSE (IF text[1] = "'" THEN <<"'", "'">> ELSE <<text[1]>>) \o QuotesDoubled(Tail(text))

\* C15: with auto_quote the assignment of a name that is not quoted yet and
\* holds reserved punctuation, a single quote or whitespace does not raise, and
\* the name stored is the text between single quotes with its quotes doubled.
C15_AutoQuoteWraps ==
  (/\ last.op \in {"Node", "name"}
   /\ last.attr = "name"
   /\ last.auto_quote
   /\ ~Quoted(last.text)
   /\ \E k \in DOMAIN last.text :
        last.text[k] \in RESERVED_PUNCTUATION \cup Whitespace \cup {"'"}) =>
    /\ result = "ok"
    /\ heap[1].name = <<"'">> \o QuotesDoubled(last.text) \o <<"'">>

\* ------------------------------------------- claims: comments and quotes

\* The top-level bracketed comments of a text without quotes, in the order of
\* the text and without their outermost brackets; st is [depth, cur, done].
RECURSIVE CommentScan(_, _, _)
CommentScan(text, i, st) ==
  IF i > Len(text) THEN st.done
  ELSE LET c == text[i]
       IN CommentScan(text, i + 1,
            IF c = "[" /\ st.depth = 0
              THEN [st EXCEPT !.depth = 1, !.cur = << >>]
            ELSE IF c = "[" THEN [st EXCEPT !.depth = @ + 1, !.cur = Append(@, c)]
            ELSE IF c = "]" /\ st.depth = 1
              THEN [depth |-> 0, cur |-> << >>, done |-> Append(st.done, st.cur)]
            ELSE IF c = "]" THEN [st EXCEPT !.depth = @ - 1, !.cur = Append(@, c)]
            ELSE IF st.depth > 0 THEN [st EXCEPT !.cur = Append(@, c)]
            ELSE st)

TopComments(text) ==
  CommentScan(text, 1, [depth |-> 0, cur |-> << >>, done |-> << >>])

\* The text is one label: it has no quote, no escape and no character that
\* ends a label.
OneLabel(text) ==
  \A k \in DOMAIN text : text[k] \notin {"'", "\\", "(", ")", ",", ";"}

\* C16: the comments of a node parsed from one label are the top-level
\* bracketed comments of the label, each its own entry, in source order and
\* without their outermost brackets.
C16_CommentsSplit ==
  (last.op = "loads" /\ result = "ok" /\ OneLabel(input) /\ Len(trees) = 1) =>
    heap[trees[1]].comments = TopComments(input)

\* The number of comments that are open before the character k of the text.
BracketDepth(text, k) ==
  Cardinality({j \in 1..(k - 1) : text[j] = "["})
    - Cardinality({j \in 1..(k - 1) : text[j] = "]"})

\* The places of the colons of the text that are outside its comments.
TopColons(text) ==
  {k \in DOMAIN text : text[k] = ":" /\ BracketDepth(text, k) = 0}

BeforeColon(text) == SubSeq(text, 1, (CHOOSE k \in TopColons(text) : TRUE) - 1)

AfterColon(text) ==
  SubSeq(text, (CHOOSE k \in TopColons(text) : TRUE) + 1, Len(text))

HasComment(text) == \E k \in DOMAIN text : text[k] = "["

\* What dumps wrote, without the semicolon at its end.
Rendered == SubSeq(out, 1, Len(out) - 1)

\* dumps has written the one label that loads read from input, a label with
\* one colon, a length and comments.
LabelWritten ==
  /\ last.op = "dumps"
  /\ OneLabel(input)
  /\ Cardinality(TopColons(input)) = 1
  /\ Len(trees) = 1
  /\ heap[trees[1]].length # NoneStr
  /\ heap[trees[1]].comments # << >>

\* C17: a label with a length and comments is written with its comments on the
\* side of the colon where they were read: before it, after it, or, when there
\* were comments on both sides, exactly as the label was read.
C17_CommentSideKept ==
  LabelWritten =>
    /\ Cardinality(TopColons(Rendered)) = 1
    /\ (HasComment(BeforeColon(input)) /\ ~HasComment(AfterColon(input)))
         => ~HasComment(AfterColon(Rendered))
    /\ (~HasComment(BeforeColon(input)) /\ HasComment(AfterColon(input)))
         => ~HasComment(BeforeColon(Rendered))
    /\ (HasComment(BeforeColon(input)) /\ HasComment(AfterColon(input)))
         => Rendered = input

\* The quoted strings and the comments of a text, read character by character:
\* a quote opens a quoted string and the next quote closes it, but for a quote
\* that follows a backslash inside the string; brackets outside quoted strings
\* open and close comments, which nest. For each character: is it part of a
\* quoted string (quoted), and is it part of a quoted string or of a comment
\* (inside).
RECURSIVE Regions(_, _, _, _, _, _)
Regions(text, i, inq, esc, depth, acc) ==
  IF i > Len(text) THEN acc
  ELSE LET c == text[i]
       IN IF inq
            THEN Regions(text, i + 1,
                         esc \/ c # "'",
                         (~esc) /\ c = "\\" /\ i < Len(text) /\ text[i + 1] = "'",
                         depth,
                         Append(acc, [quoted |-> TRUE, inside |-> TRUE]))
          ELSE IF c = "'"
            THEN Regions(text, i + 1, TRUE, FALSE, depth,
                         Append(acc, [quoted |-> TRUE, inside |-> TRUE]))
          ELSE IF c = "["
            THEN Regions(text, i + 1, FALSE, FALSE, depth + 1,
                         Append(acc, [quoted |-> FALSE, inside |-> TRUE]))
          ELSE IF c = "]"
            THEN Regions(text, i + 1, FALSE, FALSE, depth - 1,
                         Append(acc, [quoted |-> FALSE, inside |-> depth > 0]))
          ELSE Regions(text, i + 1, FALSE, FALSE, depth,
                       Append(acc, [quoted |-> FALSE, inside |-> depth > 0]))

RegionsOf(text) == Regions(text, 1, FALSE, FALSE, 0, << >>)

\* Every backslash of the text is part of a quoted string.
BackslashesQuoted(text) ==
  \A k \in DOMAIN text : text[k] = "\\" => RegionsOf(text)[k].quoted

\* The commas, colons and semicolons of the text that are inside a quoted
\* string or a comment.
Embedded(text) ==
  {k \in DOMAIN text : text[k] \in {",", ":", ";"} /\ RegionsOf(text)[k].inside}

\* What the claim compares of a parse: the trees, and for each node its
\* children, its length, the size of its name and the number of its comments.
Structure(h, ts) ==
  [trees |-> ts,
   nodes |-> [n \in DOMAIN h |->
                [descendants |-> h[n].descendants,
                 length |-> h[n].length,
                 name |-> Len(h[n].name),
                 comments |-> Len(h[n].comments)]]]

\* The parse of the text with the plain character a at the place k gives the
\* structure of the parse at hand, if loads accepts that text too.
SameWithout(k) ==
  LET plain == loads([input EXCEPT ![k] = "a"], FALSE)
  IN (~plain.err) => Structure(plain.heap, plain.trees) = Structure(heap, trees)

RECURSIVE EndOf(_, _, _, _, _)
EndOf(text, i, inq, esc, depth) ==
  IF i > Len(text) THEN [inq |-> inq, depth |-> depth]
  ELSE LET c == text[i]
       IN IF inq
            THEN EndOf(text, i + 1, esc \/ c # "'",
                       (~esc) /\ c = "\\" /\ i < Len(text) /\ text[i + 1] = "'",
                       depth)
          ELSE IF c = "'" THEN EndOf(text, i + 1, TRUE, FALSE, depth)
          ELSE IF c = "[" THEN EndOf(text, i + 1, FALSE, FALSE, depth + 1)
          ELSE IF c = "]" THEN EndOf(text, i + 1, FALSE, FALSE, depth - 1)
          ELSE EndOf(text, i + 1, FALSE, FALSE, depth)

\* The last statement of the text ends with a quoted string or a comment open.
EndsOpen(text) ==
  LET end == EndOf(text, 1, FALSE, FALSE, 0)
  IN end.inq \/ end.depth > 0

\* C19: loads raises ValueError, with strip_comments false and with
\* strip_comments true, for a text that ends while a quoted string or a
\* comment is still open.
C19_OpenEndRaises ==
  (last.op = "loads" /\ BackslashesQuoted(input) /\ EndsOpen(input)) =>
    \A strip_comments \in BOOLEAN : loads(input, strip_comments).err


\* ------------------------------------------------------------------------
\* Claims about prune_by_names.

\* The nodes of the tree of the last call, before the call, that bear one of
\* the given names.
Bearers == {n \in Subtree(pre, last.self) : pre[n].name \in last.names}

\* Of the nodes bearing a given name, the first in walk order for each name.
FirstBearers ==
  LET order == walk(pre, last.self)
  IN {n \in Bearers : \A m \in Bearers :
        pre[m].name = pre[n].name => Position(order, n) <= Position(order, m)}

\* The nodes that bear a name a node before them in walk order bears too.
LaterBearers == Bearers \ FirstBearers

\* C20 as stated: prune_by_names prunes the first node, in walk order, of each
\* given name and no other: the tree is left as prune leaves it for those first
\* nodes, and on a loaded tree with inverse false the later nodes of a shared
\* name that were not below a first one are still in the tree.
C20_FirstMatchPruned ==
  last.op = "prune_by_names" =>
    /\ heap = prune(pre, last.self, FirstBearers, last.inverse).heap
    /\ (OnLoadedTree /\ ~last.inverse) =>
         \A n \in LaterBearers :
           (\A f \in FirstBearers \ {last.self} : n \notin Subtree(pre, f))
             => n \in Subtree(heap, last.self)

\* C20: prune_by_names prunes every node of the tree that bears one of the
\* given names: the tree is left as prune leaves it for all those nodes, and on
\* a loaded tree with inverse false no node but the root bears a given name
\* afterwards.
C20_AllMatchesPruned ==
  last.op = "prune_by_names" =>
    /\ heap = prune(pre, last.self, Bearers, last.inverse).heap
    /\ (OnLoadedTree /\ ~last.inverse) =>
         /\ result = "ok"
         /\ \A n \in Subtree(heap, last.self) \ {last.self} :
              heap[n].name \notin last.names

\* Two leaves of one name, neither below the other, were in the tree, the name
\* was given, and both are gone.
C20_Witness ==
  /\ last.op = "prune_by_names" /\ OnLoadedTree /\ ~last.inverse
  /\ \E n \in FirstBearers, m \in LaterBearers :
       /\ pre[n].name = pre[m].name
       /\ n # last.self
       /\ pre[n].descendants = << >> /\ pre[m].descendants = << >>
       /\ {n, m} \cap Subtree(heap, last.self) = {}


\* ------------------------------------------------------------------------
\* Claims about the length policy of a tree.

\* C21: every node of a tree made with a length_parser and a length_formatter,
\* by loads or from a root Node, holds that parser and that formatter, also
\* after resolve_polytomies has added nodes.
C21_PolicyOnEveryNode ==
  Loaded =>
    \A n \in Reachable(heap, trees) :
      /\ heap[n].length_parser = kw.length_parser
      /\ heap[n].length_formatter = kw.length_formatter


\* ------------------------------------------------------------------------
\* Claims about the labels of parsed nodes.

\* The number of the letters a of the text that are outside every comment.
LettersOf(text) ==
  Cardinality({k \in DOMAIN text :
                 text[k] = "a" /\ Tokenize(text).toks[k].commentlevel = 0})

\* The number of the letters a in the names and lengths of the given nodes.
RECURSIVE LettersIn(_, _)
LettersIn(h, nodes) ==
  IF nodes = {} THEN 0
  ELSE LET n == CHOOSE m \in nodes : TRUE
           label == h[n].name \o h[n].length
       IN Cardinality({k \in DOMAIN label : label[k] = "a"})
            + LettersIn(h, nodes \ {n})

\* C22: a text that loads accepts and that begins with a letter, not with an
\* opening parenthesis, and holds one statement gives a node without
\* descendants; and no letter of an accepted text outside its comments is
\* dropped: each is in the name or the length of a node.
C22_LabelKept ==
  (last.op = "loads" /\ result = "ok") =>
    /\ (input # << >> /\ input[1] = "a"
          /\ RegularCount(Tokenize(input).toks, ";") = 0) =>
         /\ Len(trees) = 1
         /\ heap[trees[1]].descendants = << >>
    /\ LettersIn(heap, Reachable(heap, trees)) = LettersOf(input)


\* The characters of the part from..to of the text that are outside comments.
RECURSIVE NonComment(_, _, _)
NonComment(text, from, to) ==
  IF from > to THEN << >>
  ELSE (IF BracketDepth(text, from) = 0 /\ text[from] # "[" THEN <<text[from]>>
        ELSE << >>) \o NonComment(text, from + 1, to)

\* The place of the first colon of the text outside its comments.
FirstColon(text) ==
  CHOOSE k \in TopColons(text) : \A j \in TopColons(text) : k <= j

\* C23: in one label with a colon outside comments the first such colon parts
\* name and length: the name is the text outside comments before it, trimmed,
\* the length is the text outside comments after it, and a label with a second
\* such colon, which is then a part of the length, is rejected.
C23_FirstColonSplits ==
  (last.op = "loads" /\ OneLabel(input) /\ TopColons(input) # {}) =>
    IF Cardinality(TopColons(input)) > 1
      THEN result = "ValueError"
      ELSE result = "ok" =>
             /\ Len(trees) = 1
             /\ heap[trees[1]].name =
                  Strip(NonComment(input, 1, FirstColon(input) - 1))
             /\ heap[trees[1]].length =
                  NonComment(input, FirstColon(input) + 1, Len(input))


\* ------------------------------------------------------------------------
\* Claims about calls in sequence and calls on inner nodes.

\* C24: in every tree, whatever calls were made, each child of a reachable
\* node has that node as its ancestor, and the root has none.
C24_ChildKnowsParent ==
  Loaded =>
    \A t \in Range(trees) :
      /\ heap[t].ancestor = 0
      /\ \A p \in Subtree(heap, t) :
           \A k \in DOMAIN heap[p].descendants :
             heap[heap[p].descendants[k]].ancestor = p


\* C25: remove_redundant_nodes returns, on the root and on every inner node,
\* whatever calls were made before: its while loop ends.
C25_CollapseReturns ==
  last.op = "remove_redundant_nodes" => result # "diverges"


\* C26: a call of prune, remove_redundant_nodes or resolve_polytomies on a
\* node that is not a root, when it returns, leaves every node outside the
\* subtree of that node with its descendants, its name and its length, and
\* leaves the node in the list of its parent.
C26_SubtreeFrame ==
  (/\ last.op \in {"prune", "remove_redundant_nodes", "resolve_polytomies"}
   /\ result = "ok"
   /\ last.self \notin Range(trees)) =>
    /\ \A n \in DOMAIN pre \ Subtree(pre, last.self) :
         /\ heap[n].descendants = pre[n].descendants
         /\ heap[n].name = pre[n].name
         /\ heap[n].length = pre[n].length
    /\ \E p \in DOMAIN heap :
         /\ last.self \in Range(pre[p].descendants)
         /\ last.self \in Range(heap[p].descendants)


\* ------------------------------------------------------------------------
\* Claims about names written and read again.

\* r is a parse without error into one tree of one node with the given name.
OneNodeNamed(r, name) ==
  /\ ~r.err
  /\ Len(r.trees) = 1
  /\ Len(r.heap) = 1
  /\ r.heap[r.trees[1]].name = name

\* C27: a node whose name the name setter has accepted, auto_quote being off,
\* is written as a text that loads reads as one tree of one node with that
\* name.
C27_NameReadBack ==
  (/\ last.op \in {"Node", "name"}
   /\ last.attr = "name"
   /\ ~last.auto_quote
   /\ result = "ok") =>
    OneNodeNamed(loads(dumps(heap, trees), FALSE), heap[1].name)


\* The raw name holds a reserved character or a quote.
NeedsQuotes(x) ==
  \E k \in DOMAIN x : x[k] \in RESERVED_PUNCTUATION \cup {QUOTE}

\* The raw name holds a backslash directly before a quote.
EscapedQuote(x) ==
  \E k \in 1..(Len(x) - 1) : x[k] = "\\" /\ x[k + 1] = QUOTE

\* C28 as stated: the unquoted name of a node made with auto_quote from a raw
\* name that holds a reserved character or a quote is the raw name, also when
\* the raw name starts and ends with a quote or holds a backslash before a
\* quote.
C28_UnquotedIsRaw ==
  (last.op = "unquoted_name" /\ NeedsQuotes(input)) =>
    /\ result = "ok"
    /\ out = input

\* C28: the unquoted name of a node made with auto_quote from a raw name that
\* holds a reserved character or a quote is the raw name, if the raw name does
\* not both start and end with a quote and holds no backslash directly before
\* a quote.
C28_UnquotedIsRawUnlessQuoted ==
  (/\ last.op = "unquoted_name"
   /\ NeedsQuotes(input)
   /\ ~Quoted(input)
   /\ ~EscapedQuote(input)) =>
    /\ result = "ok"
    /\ out = input

\* A raw name with a quote and a backslash in it was wrapped in quotes, its
\* quote doubled, and read back.
C28_Witness ==
  /\ last.op = "unquoted_name" /\ result = "ok"
  /\ ~Quoted(input) /\ ~EscapedQuote(input)
  /\ \E k \in DOMAIN input : input[k] = QUOTE
  /\ \E k \in DOMAIN input : input[k] = "\\"
  /\ heap[1].name # input
  /\ Len(heap[1].name) = Len(input) + 3
  /\ out = input


\* ------------------------------------------------------------------------
\* Claims about strip_comments and about trees written and read again.

\* r, a parse with strip_comments, raises when the parse at hand has raised.
StripRaisesAlike(r) == r.err <=> result = "ValueError"

\* r, a parse with strip_comments, has the trees of the parse at hand, node by
\* node the same children, names and lengths, and no comments.
StripSameTrees(r) ==
  (~r.err /\ result = "ok") =>
    /\ r.trees = trees
    /\ DOMAIN r.heap = DOMAIN heap
    /\ \A n \in DOMAIN heap :
         /\ r.heap[n].descendants = heap[n].descendants
         /\ r.heap[n].name = heap[n].name
         /\ r.heap[n].length = heap[n].length
         /\ r.heap[n].comments = << >>

\* C29: loads with strip_comments raises for the texts for which loads without
\* it raises, and for no others, and otherwise returns the same trees with the
\* same names and lengths, and without comments.
C29_StripEquivalent ==
  last.op = "loads" =>
    /\ StripRaisesAlike(loads(input, TRUE))
    /\ StripSameTrees(loads(input, TRUE))


\* The shape of the subtree of n with the names of its nodes: the name of n
\* and the shapes of its children, from left to right.
RECURSIVE Shape(_, _)
Shape(h, n) ==
  <<h[n].name, [k \in DOMAIN h[n].descendants |-> Shape(h, h[n].descendants[k])]>>

\* r is a parse without error into one tree of the given shape.
OneTreeShaped(r, shape) ==
  /\ ~r.err
  /\ Len(r.trees) = 1
  /\ Shape(r.heap, r.trees[1]) = shape

\* C30: the text that newick gives for a tree that loads returned, the root
\* having a name, is read by loads as one tree of the same shape, with the same
\* names.
C30_TreeReadBack ==
  (last.op = "loads" /\ result = "ok") =>
    \A k \in DOMAIN trees :
      heap[trees[k]].name # NoneStr =>
        OneTreeShaped(loads(newick(heap, trees[k]), FALSE),
                      Shape(heap, trees[k]))

====
